---- MODULE Spec2Model ----
(***************************************************************************)
(* Prioritized experience replay of level_replay/algo/buffer.py: the       *)
(* circular transition store (Buffer) and its priority index (SumTree),    *)
(* and the categorical projection of level_replay/algo/policy.py           *)
(* (Rainbow.train).                                                        *)
(*                                                                         *)
(* Priorities are floats in the source; here they are natural numbers, so  *)
(* sums are exact.  A transition is represented by its insertion number    *)
(* (1 for the first transition ever added); 0 is the np.zeros content of a *)
(* slot never written.  The six storage arrays (state, action, next_state, *)
(* reward, not_done, seeds) are written with the same slices by add and    *)
(* are represented by the one array `state`.                               *)
(***************************************************************************)
EXTENDS Integers, Sequences, FiniteSets

\* ---- bounds of the model -------------------------------------------------
MaxCapacity == 3   \* buffers of max_size 1..MaxCapacity
MaxBatch    == 3   \* add receives 1..MaxBatch transitions
MaxPrio     == 2   \* priorities handed to update_priority: 0..MaxPrio
MaxTreePrio == 1   \* priorities handed to set / batch_set directly: 0..MaxTreePrio
MaxTotal    == 4   \* transitions inserted over a run
MaxSamples  == 1   \* prioritized sample calls over a run (beta steps)
BatchSize   == 2   \* batch_size of the buffer
AnnealCapacity == 2  \* AnnealSpec: buffers of max_size 1..AnnealCapacity
ConcCapacity == 2  \* ConcSpec: trees of max_size 1..ConcCapacity
MaxAtoms    == 3   \* ProjSpec: atoms in 2..MaxAtoms
MaxV        == 1   \* ProjSpec: V_max in 1..MaxV, V_min in -MaxV..0
MaxReward   == 2   \* ProjSpec: rewards -MaxReward..MaxReward
ProbUnits   == 2   \* ProjSpec: probabilities are multiples of 1 / ProbUnits

\* ---- program constants ---------------------------------------------------
\* beta is counted in steps of 2e-7: 0.4 is 2000000 steps, 1.0 is 5000000.
BetaInit == 2000000
BetaOne  == 5000000
\* max_priority after construction (1.0)
InitMaxPriority == 1

VARIABLES
    max_size,      \* AbstractBuffer.max_size
    prioritized,   \* Buffer.prioritized
    state,         \* storage arrays: slot -> insertion number (0: never written)
    ptr,           \* AbstractBuffer.ptr
    size,          \* AbstractBuffer.size
    nodes,         \* SumTree.nodes: level -> (index -> value), level 0 is the root
    max_priority,  \* Buffer.max_priority
    beta,          \* Buffer.beta, in steps of 2e-7
    total,         \* number of transitions inserted so far (history)
    ind,           \* index vector the learner holds between sample and update_priority
    ref,           \* TreeSpec: the tree as one set per distinct index in place of each
                   \* batch_set leaves it (history)
    call,          \* the last call: its name, arguments and outcome (history)
    samples,       \* number of prioritized sample calls that returned a batch (history)
    proj,          \* Rainbow.train: the inputs and results of the projection
    writer,        \* ConcSpec: the set / batch_set in progress: the level its loop
                   \* writes next, its node_index and priority_diff
    exclusive      \* ConcSpec: sample waits until no set / batch_set is in progress

vars == <<max_size, prioritized, state, ptr, size, nodes, max_priority, beta,
          total, ind, ref, call, samples, proj, writer, exclusive>>

\* ---- arithmetic helpers --------------------------------------------------
Min(a, b) == IF a < b THEN a ELSE b

Max(a, b) == IF a > b THEN a ELSE b

Pow2(n) == 2 ^ n

\* int(np.ceil(np.log2(n))) for n >= 1
CeilLog2(n) == CHOOSE d \in 0..n : Pow2(d) >= n /\ (d = 0 \/ Pow2(d - 1) < n)

\* priority.max()
RECURSIVE SeqMax(_)
SeqMax(s) == IF Len(s) = 1 THEN s[1] ELSE Max(s[Len(s)], SeqMax(SubSeq(s, 1, Len(s) - 1)))

\* ---- SumTree -------------------------------------------------------------
\* SumTree.__init__: ceil(log2(max_size)) + 1 levels, level l has 2^l zeros
SumTreeInit(ms) == [l \in 0..CeilLog2(ms) |-> [i \in 0..(Pow2(l) - 1) |-> 0]]

\* index of the leaf level, self.nodes[-1]
Last(t) == Cardinality(DOMAIN t) - 1

\* self.nodes[-1]
Leaves(t) == t[Last(t)]

\* self.nodes[0][0]
Root(t) == t[0][0]

\* np.add.at(a, idx, d): unbuffered, an index listed twice is added to twice
RECURSIVE SumAt(_, _, _, _)
SumAt(idx, d, i, n) ==
    IF n = 0 THEN 0
    ELSE SumAt(idx, d, i, n - 1) + (IF idx[n] = i THEN d[n] ELSE 0)

AddAt(a, idx, d) == [i \in DOMAIN a |-> a[i] + SumAt(idx, d, i, Len(idx))]

\* node_index //= 2
Halve(idx) == [j \in DOMAIN idx |-> idx[j] \div 2]

\* for nodes in self.nodes[::-1]: np.add.at(nodes, node_index, diff); node_index //= 2
RECURSIVE Propagate(_, _, _, _)
Propagate(t, l, idx, d) ==
    IF l < 0 THEN t
    ELSE Propagate([t EXCEPT ![l] = AddAt(t[l], idx, d)], l - 1, Halve(idx), d)

\* a set that stops one level short of the root
SumTreeSetNoRoot(t, node_index, new_priority) ==
    LET priority_diff == new_priority - Leaves(t)[node_index]
        u == Propagate(t, Last(t), <<node_index>>, <<priority_diff>>)
    IN  [u EXCEPT ![0] = t[0]]

\* SumTree.set
SumTreeSet(t, node_index, new_priority) ==
    LET priority_diff == new_priority - Leaves(t)[node_index]
    IN  Propagate(t, Last(t), <<node_index>>, <<priority_diff>>)

\* np.unique(node_index, return_index=True): the sorted distinct values and,
\* for each, the position of its first occurrence
RECURSIVE SortSet(_)
SortSet(S) ==
    IF S = {} THEN <<>>
    ELSE LET m == CHOOSE x \in S : \A y \in S : x <= y
         IN  <<m>> \o SortSet(S \ {m})

Range(s) == {s[j] : j \in DOMAIN s}

FirstIndex(s, v) == CHOOSE j \in DOMAIN s : s[j] = v /\ \A i \in DOMAIN s : s[i] = v => j <= i

\* a batch_set without the np.unique step: every listed pair contributes a diff
SumTreeBatchSetNoUnique(t, node_index, new_priority) ==
    LET priority_diff == [j \in DOMAIN node_index |->
                             new_priority[j] - Leaves(t)[node_index[j]]]
    IN  Propagate(t, Last(t), node_index, priority_diff)

\* SumTree.batch_set
SumTreeBatchSet(t, node_index, new_priority) ==
    LET uniq == SortSet(Range(node_index))
        unique_index == [j \in DOMAIN uniq |-> FirstIndex(node_index, uniq[j])]
        priority_diff == [j \in DOMAIN uniq |->
                             new_priority[unique_index[j]] - Leaves(t)[uniq[j]]]
    IN  Propagate(t, Last(t), uniq, priority_diff)

\* one set per distinct index of a batch, with the priority given at the first
\* occurrence of that index
RECURSIVE SetEach(_, _, _, _)
SetEach(t, uniq, node_index, new_priority) ==
    IF uniq = <<>> THEN t
    ELSE SetEach(SumTreeSet(t, Head(uniq), new_priority[FirstIndex(node_index, Head(uniq))]),
                 Tail(uniq), node_index, new_priority)

\* a batch that lists one index twice with two different priorities
DupDiffers(node_index, new_priority) ==
    \E i, j \in DOMAIN node_index :
        i < j /\ node_index[i] = node_index[j] /\ new_priority[i] # new_priority[j]

\* the top-down search of SumTree.sample for one query value
RECURSIVE Descend(_, _, _, _)
Descend(t, l, node_index, query_value) ==
    IF l > Last(t) THEN node_index
    ELSE LET doubled == 2 * node_index
             left_sum == t[l][doubled]
             is_greater == query_value > left_sum
         IN  Descend(t, l + 1,
                     IF is_greater THEN doubled + 1 ELSE doubled,
                     IF is_greater THEN query_value - left_sum ELSE query_value)

\* a search that descends right already when the draw equals the left sum
RECURSIVE DescendGeq(_, _, _, _)
DescendGeq(t, l, node_index, query_value) ==
    IF l > Last(t) THEN node_index
    ELSE LET doubled == 2 * node_index
             left_sum == t[l][doubled]
             is_greater == query_value >= left_sum
         IN  DescendGeq(t, l + 1,
                     IF is_greater THEN doubled + 1 ELSE doubled,
                     IF is_greater THEN query_value - left_sum ELSE query_value)

SumTreeSampleGeq(t, query_value) == DescendGeq(t, 1, 0, query_value)

\* SumTree.sample, one element of the batch
SumTreeSample(t, query_value) == Descend(t, 1, 0, query_value)

\* draws that may exceed the root by one
DrawsBeyondRoot(root) == 0..(root + 1)

\* np.random.uniform(0, root): a real draw in (q - 1, q] takes the same branches
\* as the integer q, because every node is an integer here; 0 is the draw 0.0.
Draws(root) == 0..root

\* ---- Buffer --------------------------------------------------------------
\* the batch handed to add: the transitions numbered total + 1 .. total + k
Batch(tot, k) == [j \in 1..k |-> tot + j]

\* an end computed without the wrap
AddEndNoWrap(p, k, ms) == p + k

\* end = (self.ptr + n_transitions) % self.max_size
AddEnd(p, k, ms) == (p + k) % ms

\* a[lo:hi] = src with len(src) = hi - lo
SliceAssign(a, lo, hi, src) ==
    [s \in DOMAIN a |-> IF lo <= s /\ s < hi THEN src[s - lo + 1] ELSE a[s]]

\* numpy refuses a[lo:hi] = src when the lengths differ and src is not a
\* single row: the wrapping branch copies n_transitions - end rows of the
\* batch to the max_size - ptr slots of the tail
AddRaises(p, k, ms) ==
    /\ p + k > ms
    /\ k - AddEnd(p, k, ms) # ms - p
    /\ k - AddEnd(p, k, ms) # 1

\* a wrapping write whose head copy takes the first rows of the batch again
StoreWriteHeadFromStart(a, p, batch, ms) ==
    LET k == Len(batch)
        end == AddEnd(p, k, ms)
    IN  IF p + k > ms
        THEN SliceAssign(SliceAssign(a, p, ms, SubSeq(batch, 1, k - end)),
                         0, end, SubSeq(batch, 1, end))
        ELSE SliceAssign(a, p, p + k, batch)

\* the slice assignments of Buffer.add
StoreWrite(a, p, batch, ms) ==
    LET k == Len(batch)
        end == AddEnd(p, k, ms)
    IN  IF p + k > ms
        THEN SliceAssign(SliceAssign(a, p, ms, SubSeq(batch, 1, k - end)),
                         0, end, SubSeq(batch, k - end + 1, k))
        ELSE SliceAssign(a, p, p + k, batch)

\* an add that writes the priority also when prioritization is off
AddTreeAlways(pri, t, p, mp) == SumTreeSet(t, p, mp)

\* if self.prioritized: self.tree.set(self.ptr, self.max_priority)
AddTree(pri, t, p, mp) == IF pri THEN SumTreeSet(t, p, mp) ELSE t

\* an update that forgets the running maximum
NewMaxPriorityLatest(mp, priority) == SeqMax(priority)

\* self.max_priority = max(priority.max(), self.max_priority)
NewMaxPriority(mp, priority) == Max(SeqMax(priority), mp)

NoCall == [op |-> "none", ok |-> TRUE, k |-> 0, ptr |-> 0,
           ind |-> <<>>, priority |-> <<>>, query |-> <<>>, dup |-> FALSE,
           weights |-> <<>>, torn |-> FALSE]

\* no projection computed yet
NoProj == [done |-> FALSE]

\* no set or batch_set in progress
Idle == [level |-> -1, index |-> <<>>, diff |-> <<>>]

\* Buffer.__init__ / AbstractBuffer.__init__.  A buffer that is not
\* prioritized has no tree, max_priority or beta attribute; the model keeps
\* the values a prioritized buffer starts with, and nothing reads them.
InitBuffer(ms, pri) ==
    /\ max_size = ms
    /\ prioritized = pri
    /\ state = [s \in 0..(ms - 1) |-> 0]
    /\ ptr = 0
    /\ size = 0
    /\ nodes = SumTreeInit(ms)
    /\ max_priority = InitMaxPriority
    /\ beta = BetaInit
    /\ total = 0
    /\ ind = <<>>
    /\ ref = SumTreeInit(ms)
    /\ call = NoCall
    /\ samples = 0
    /\ proj = NoProj
    /\ writer = Idle
    /\ exclusive = TRUE

Init == \E ms \in 1..MaxCapacity, pri \in BOOLEAN : InitBuffer(ms, pri)

\* Buffer.add with a batch of k transitions
Add(k) ==
    /\ total + k <= MaxTotal
    /\ IF AddRaises(ptr, k, max_size)
       THEN /\ call' = [NoCall EXCEPT !.op = "add", !.ok = FALSE, !.k = k, !.ptr = ptr]
            /\ UNCHANGED <<state, nodes, ptr, size, total>>
       ELSE /\ state' = StoreWrite(state, ptr, Batch(total, k), max_size)
            /\ nodes' = AddTree(prioritized, nodes, ptr, max_priority)
            /\ ptr' = AddEnd(ptr, k, max_size)
            /\ size' = Min(size + 1, max_size)
            /\ total' = total + k
            /\ call' = [NoCall EXCEPT !.op = "add", !.k = k, !.ptr = ptr]
    /\ UNCHANGED <<writer, exclusive, proj, samples, max_size, prioritized, max_priority, beta, ind, ref>>

\* the indices SumTree.sample can return for one element of the batch
Sampled(t) == {SumTreeSample(t, q) : q \in Draws(Root(t))}

\* self.tree.nodes[-1][ind]
LeafAt(t, iv) == [j \in DOMAIN iv |-> Leaves(t)[iv[j]]]

\* the smallest element of a non-empty vector
RECURSIVE SeqMin(_)
SeqMin(s) == IF Len(s) = 1 THEN s[1] ELSE Min(s[Len(s)], SeqMin(SubSeq(s, 1, Len(s) - 1)))

\* weights divided by the weight of the largest leaf in place of the largest
\* weight
WeightsByLargest(leaf) ==
    IF \E j \in DOMAIN leaf : leaf[j] = 0
    THEN [j \in DOMAIN leaf |->
             IF leaf[j] = 0 THEN [kind |-> "nan",  num |-> 0, den |-> 0]
                            ELSE [kind |-> "zero", num |-> 0, den |-> leaf[j]]]
    ELSE [j \in DOMAIN leaf |-> [kind |-> "ratio", num |-> SeqMax(leaf), den |-> leaf[j]]]

\* weights = leaf ** -beta; weights /= weights.max(), in IEEE arithmetic with
\* beta > 0.  A leaf of priority 0 gives 0 ** -beta = inf, so the maximum is
\* inf and the division leaves nan (inf / inf) for that element and 0 for
\* every positive leaf.  When every leaf is positive the largest weight is
\* the one of the smallest leaf, and element j becomes
\* (leaf_j ** -beta) / (least ** -beta) = (least / leaf_j) ** beta, kept as
\* the pair num / den of that ratio; x / x is exactly 1.0.
Weights(leaf) ==
    IF \E j \in DOMAIN leaf : leaf[j] = 0
    THEN [j \in DOMAIN leaf |->
             IF leaf[j] = 0 THEN [kind |-> "nan",  num |-> 0, den |-> 0]
                            ELSE [kind |-> "zero", num |-> 0, den |-> leaf[j]]]
    ELSE [j \in DOMAIN leaf |-> [kind |-> "ratio", num |-> SeqMin(leaf), den |-> leaf[j]]]

\* torch.FloatTensor([1]): the weight of a batch drawn without priorities
UnitWeights == <<[kind |-> "ratio", num |-> 1, den |-> 1]>>

\* the numbers of earlier sample calls a run of the model can start from:
\* none, and enough for beta to be one step below 1.0 or at 1.0
SampleStarts == {0, BetaOne - BetaInit - 1, BetaOne - BetaInit}

\* a beta step that is not clamped
BetaStepUnclamped(b) == b + 1

\* self.beta = min(self.beta + 2e-7, 1)
BetaStep(b) == Min(b + 1, BetaOne)

\* Buffer.sample on a prioritized buffer: every element of the batch is the
\* search result of its own draw; then the weights and the beta step
SamplePrioritized ==
    /\ prioritized
    /\ \E s0 \in SampleStarts : s0 <= samples /\ samples < s0 + MaxSamples
    /\ \E iv \in [1..BatchSize -> Sampled(nodes)] :
          IF \A j \in 1..BatchSize : iv[j] < max_size
          THEN /\ ind' = iv
               /\ beta' = BetaStep(beta)
               /\ samples' = samples + 1
               /\ call' = [NoCall EXCEPT !.op = "sample",
                                          !.weights = Weights(LeafAt(nodes, iv))]
          ELSE \* self.state[ind] raises IndexError
               /\ call' = [NoCall EXCEPT !.op = "sample", !.ok = FALSE]
               /\ UNCHANGED <<ind, beta, samples>>
    /\ UNCHANGED <<writer, exclusive, proj, max_size, prioritized, state, ptr, size, nodes, ref, max_priority,
                   total>>

\* a sample without prioritization that steps beta all the same
SampleUniformStepsBeta ==
    /\ ~prioritized
    /\ IF size = 0
       THEN /\ call' = [NoCall EXCEPT !.op = "sample", !.ok = FALSE]
            /\ UNCHANGED <<ind, beta>>
       ELSE /\ \E iv \in [1..BatchSize -> 0..(size - 1)] : ind' = iv
            /\ beta' = BetaStep(beta)
            /\ call' = [NoCall EXCEPT !.op = "sample", !.weights = UnitWeights]
    /\ UNCHANGED <<writer, exclusive, proj, samples, max_size, prioritized, state, ptr,
                   size, nodes, ref, max_priority, total>>

\* Buffer.sample on a buffer without prioritization:
\* np.random.randint(0, self.size) raises ValueError when size is 0
SampleUniform ==
    /\ ~prioritized
    /\ IF size = 0
       THEN /\ call' = [NoCall EXCEPT !.op = "sample", !.ok = FALSE]
            /\ UNCHANGED ind
       ELSE /\ \E iv \in [1..BatchSize -> 0..(size - 1)] : ind' = iv
            /\ call' = [NoCall EXCEPT !.op = "sample", !.weights = UnitWeights]
    /\ UNCHANGED <<writer, exclusive, proj, samples, max_size, prioritized, state, ptr, size, nodes, ref, max_priority,
                   beta, total>>

\* an update_priority that writes the tree and leaves max_priority alone
UpdatePriorityKeepsMax(priority) ==
    /\ ind # <<>>
    /\ IF prioritized
       THEN /\ nodes' = SumTreeBatchSet(nodes, ind, priority)
            /\ UNCHANGED max_priority
       ELSE UNCHANGED <<max_priority, nodes>>
    /\ call' = [NoCall EXCEPT !.op = "update_priority", !.ind = ind, !.priority = priority,
                               !.dup = DupDiffers(ind, priority)]
    /\ ind' = <<>>
    /\ UNCHANGED <<writer, exclusive, proj, samples, max_size, prioritized, state, ptr,
                   size, beta, total, ref>>

\* Buffer.update_priority(ind, priority): the learner calls it once after a
\* sample, with the index vector that sample returned (policy.py: train)
UpdatePriority(priority) ==
    /\ ind # <<>>
    /\ IF prioritized
       THEN /\ max_priority' = NewMaxPriority(max_priority, priority)
            /\ nodes' = SumTreeBatchSet(nodes, ind, priority)
       ELSE UNCHANGED <<max_priority, nodes>>
    /\ call' = [NoCall EXCEPT !.op = "update_priority", !.ind = ind, !.priority = priority,
                               !.dup = DupDiffers(ind, priority)]
    /\ ind' = <<>>
    /\ UNCHANGED <<writer, exclusive, proj, samples, max_size, prioritized, state, ptr, size, beta, total, ref>>

Next ==
    \/ \E k \in 1..MaxBatch : Add(k)
    \/ SamplePrioritized
    \/ SampleUniform
    \/ \E priority \in [1..BatchSize -> 0..MaxPrio] : UpdatePriority(priority)

Spec == Init /\ [][Next]_vars

\* ---- the projection of Rainbow.train --------------------------------------
\* Values (rewards, V_min, V_max, target_Q) are counted in units of
\* 1 / ValueUnit and a probability is a number of units of 1 / ProbUnits, so
\* that every quantity of the projection is an exact integer.  gamma ** n is
\* disc / DiscDen.  One row of the batch is modelled; the rows do not
\* interact (offset moves row r to its own atoms of the flat view).
DiscDen == 2

\* gamma ** n: 0.5 or 1.0
Discounts == {1, DiscDen}

ValueUnit == DiscDen * ProbUnits

\* the vectors over atoms 0..atoms-1 of probabilities that sum to 1
Distributions(atoms) ==
    {p \in [0..(atoms - 1) -> 0..ProbUnits] :
        LET S[i \in 0..atoms] == IF i = 0 THEN 0 ELSE S[i - 1] + p[i - 1]
        IN  S[atoms] = ProbUnits}

\* sum of a vector over 0..n-1
VecSum(v, n) ==
    LET S[i \in 0..n] == IF i = 0 THEN 0 ELSE S[i - 1] + v[i - 1]
    IN  S[n]

\* torch.linspace(V_min, V_max, atoms)[i], in units of 1 / (atoms - 1)
Support(i, vmin, vmax, atoms) == vmin * (atoms - 1) + i * (vmax - vmin)

\* reward.expand(-1, atoms) + not_done * (gamma ** n) * pns_a, in value units
TargetQ(reward, not_done, disc, pns_a) ==
    [i \in DOMAIN pns_a |-> reward * ValueUnit + not_done * disc * pns_a[i]]

\* a clamp that forgets the upper end
ClampMinOnly(x, lo, hi) == Max(lo, x)

\* target_Q.clamp(min=self.V_min, max=self.V_max)
Clamp(x, lo, hi) == Max(lo, Min(x, hi))

\* b = (target_Q - V_min) / delta_z as the fraction BNum / BDen
BNum(tq, vmin, atoms) == (tq - vmin * ValueUnit) * (atoms - 1)

BDen(vmin, vmax) == ValueUnit * (vmax - vmin)

\* b.floor() and b.ceil() of a fraction n / d with n >= 0, d > 0
Floor(n, d) == n \div d

\* a ceil that rounds down
CeilAsFloor(n, d) == n \div d

Ceil(n, d) == (n + d - 1) \div d

\* a first nudge that never applies
NudgeLowNever(low, up) == low

\* low[(up > 0) * (low == up)] -= 1
NudgeLow(low, up) == IF up > 0 /\ low = up THEN low - 1 ELSE low

\* a second nudge that does not look at low == up
NudgeUpAlways(low, up, atoms) == IF low < atoms - 1 THEN up + 1 ELSE up

\* up[(low < (self.atoms - 1)) * (low == up)] += 1, low being the vector the
\* first nudge has already changed
NudgeUp(low, up, atoms) == IF low < atoms - 1 /\ low = up THEN up + 1 ELSE up

\* m.index_add_(0, index, value) over atoms 0..n-1: repeated indices add up
RECURSIVE IndexAdd(_, _, _, _)
IndexAdd(m, index, value, n) ==
    IF n = 0 THEN m
    ELSE LET r == IndexAdd(m, index, value, n - 1)
         IN  [r EXCEPT ![index[n - 1]] = @ + value[n - 1]]

\* lines 78-100 of Rainbow.train for one row.  m is counted in units of
\* 1 / (ProbUnits * bden).  index_add_ raises IndexError for an index outside
\* the row (a batch of one row), and m stays at zero.
Projection(cfg, pns_a, reward, not_done) ==
    LET atoms == cfg.atoms
        A     == 0..(atoms - 1)
        raw   == TargetQ(reward, not_done, cfg.disc, pns_a)
        tq    == [i \in A |-> Clamp(raw[i], cfg.V_min * ValueUnit, cfg.V_max * ValueUnit)]
        bden  == BDen(cfg.V_min, cfg.V_max)
        b     == [i \in A |-> BNum(tq[i], cfg.V_min, atoms)]
        low0  == [i \in A |-> Floor(b[i], bden)]
        up0   == [i \in A |-> Ceil(b[i], bden)]
        low   == [i \in A |-> NudgeLow(low0[i], up0[i])]
        up    == [i \in A |-> NudgeUp(low[i], up0[i], atoms)]
        inrow == \A i \in A : low[i] \in A /\ up[i] \in A
        zero  == [i \in A |-> 0]
        ml    == IndexAdd(zero, low, [i \in A |-> pns_a[i] * (up[i] * bden - b[i])], atoms)
        mu    == IndexAdd(ml, up, [i \in A |-> pns_a[i] * (b[i] - low[i] * bden)], atoms)
    IN  [done |-> TRUE, ok |-> inrow, atoms |-> atoms, V_min |-> cfg.V_min,
         V_max |-> cfg.V_max, disc |-> cfg.disc, pns_a |-> pns_a,
         reward |-> reward, not_done |-> not_done, raw |-> raw, target_Q |-> tq,
         b |-> b, bden |-> bden, low0 |-> low0, up0 |-> up0, low |-> low, up |-> up,
         m |-> IF inrow THEN mu ELSE zero]

\* Rainbow.__init__: atoms, V_min, V_max, gamma ** multi_step; no buffer
\* operation takes part, the buffer is an empty one
ProjInit ==
    \E atoms \in 2..MaxAtoms, vmin \in (-MaxV)..0, vmax \in 1..MaxV, disc \in Discounts :
       /\ max_size = 1
       /\ prioritized = FALSE
       /\ state = [s \in 0..0 |-> 0]
       /\ ptr = 0
       /\ size = 0
       /\ nodes = SumTreeInit(1)
       /\ max_priority = InitMaxPriority
       /\ beta = BetaInit
       /\ total = 0
       /\ ind = <<>>
       /\ ref = SumTreeInit(1)
       /\ call = NoCall
       /\ samples = 0
       /\ proj = [done |-> FALSE, atoms |-> atoms, V_min |-> vmin, V_max |-> vmax,
                  disc |-> disc]
       /\ writer = Idle
       /\ exclusive = TRUE

\* the projection step of Rainbow.train on a row with next-state distribution
\* pns_a, reward and not_done.  The result depends on nothing an earlier
\* call left behind, so a run holds one call.
Project(pns_a, reward, not_done) ==
    /\ ~proj.done
    /\ proj' = Projection(proj, pns_a, reward, not_done)
    /\ UNCHANGED <<writer, exclusive, max_size, prioritized, state, ptr, size, nodes,
                   max_priority, beta, total, ind, ref, call, samples>>

ProjNext ==
    \E pns_a \in Distributions(proj.atoms), reward \in (-MaxReward)..MaxReward,
       not_done \in 0..1 :
          Project(pns_a, reward, not_done)

ProjSpec == ProjInit /\ [][ProjNext]_vars

\* ---- a buffer late in training --------------------------------------------
\* The buffer of a learner that has already called sample s0 times on it
\* before the first add (a prioritized sample of an empty buffer returns
\* index 0 for every element and raises nothing), so that beta is at or next
\* to its ceiling.  The learner still holds the index vector of the last of
\* those calls.
AnnealInit ==
    \E ms \in 1..AnnealCapacity, s0 \in SampleStarts :
       /\ max_size = ms
       /\ prioritized = TRUE
       /\ state = [s \in 0..(ms - 1) |-> 0]
       /\ ptr = 0
       /\ size = 0
       /\ nodes = SumTreeInit(ms)
       /\ max_priority = InitMaxPriority
       /\ beta = Min(BetaInit + s0, BetaOne)
       /\ total = 0
       /\ ind = IF s0 = 0 THEN <<>> ELSE [j \in 1..BatchSize |-> 0]
       /\ ref = SumTreeInit(ms)
       /\ call = IF s0 = 0 THEN NoCall
                 ELSE [NoCall EXCEPT !.op = "sample",
                                     !.weights = Weights([j \in 1..BatchSize |-> 0])]
       /\ samples = s0
       /\ proj = NoProj
       /\ writer = Idle
       /\ exclusive = TRUE

AnnealNext ==
    \/ \E k \in 1..MaxBatch : Add(k)
    \/ SamplePrioritized
    \/ \E priority \in [1..BatchSize -> 0..MaxPrio] : UpdatePriority(priority)

AnnealSpec == AnnealInit /\ [][AnnealNext]_vars

\* ---- the SumTree on its own ----------------------------------------------
\* SumTree(max_size) driven directly: set, batch_set and sample with any
\* index in [0, max_size) and any priority in 0..MaxTreePrio.
TreeInit == \E ms \in 1..MaxCapacity : InitBuffer(ms, TRUE)

TreeSet(node_index, new_priority) ==
    /\ nodes' = SumTreeSet(nodes, node_index, new_priority)
    /\ ref' = SumTreeSet(ref, node_index, new_priority)
    /\ call' = [NoCall EXCEPT !.op = "set", !.ind = <<node_index>>,
                               !.priority = <<new_priority>>]
    /\ UNCHANGED <<writer, exclusive, proj, samples, max_size, prioritized, state, ptr, size, max_priority, beta,
                   total, ind>>

TreeBatchSet(node_index, new_priority) ==
    /\ nodes' = SumTreeBatchSet(nodes, node_index, new_priority)
    /\ ref' = SetEach(ref, SortSet(Range(node_index)), node_index, new_priority)
    /\ call' = [NoCall EXCEPT !.op = "batch_set", !.k = Len(node_index),
                               !.dup = DupDiffers(node_index, new_priority)]
    /\ UNCHANGED <<writer, exclusive, proj, samples, max_size, prioritized, state, ptr, size, max_priority, beta,
                   total, ind>>

\* SumTree.sample(1): one draw, one search
TreeSample(query_value) ==
    /\ call' = [NoCall EXCEPT !.op = "tree_sample", !.query = <<query_value>>,
                               !.ind = <<SumTreeSample(nodes, query_value)>>]
    /\ UNCHANGED <<writer, exclusive, proj, samples, max_size, prioritized, state, ptr, size, nodes, ref, max_priority,
                   beta, total, ind>>

TreeNext ==
    \/ \E i \in 0..(max_size - 1), p \in 0..MaxTreePrio : TreeSet(i, p)
    \/ \E n \in 1..BatchSize :
          \E iv \in [1..n -> 0..(max_size - 1)], pv \in [1..n -> 0..MaxTreePrio] :
             TreeBatchSet(iv, pv)
    \/ \E q \in Draws(Root(nodes)) : TreeSample(q)

TreeSpec == TreeInit /\ [][TreeNext]_vars

\* ---- the SumTree with any argument ----------------------------------------
\* SumTree.set and SumTree.batch_set check nothing; numpy decides what an
\* index means.  An index i of an array of n elements is accepted when
\* -n <= i < n, and a negative i names element n + i.
PyValid(i, n) == -n <= i /\ i < n

PyIndex(i, n) == IF i < 0 THEN n + i ELSE i

\* SumTree.set(node_index, new_priority) with any integer index.  An index
\* numpy does not accept raises IndexError at the read of
\* self.nodes[-1][node_index], before anything is written.  For an accepted
\* negative index, node_index //= 2 rounds down, so on the level of
\* 2^l nodes the index floor(i / 2^(h-l)) is again accepted and names the
\* ancestor of leaf n + i: the call writes what set(n + i, .) writes.
RawSet(node_index, new_priority) ==
    LET n == Cardinality(DOMAIN Leaves(nodes))
    IN  /\ IF PyValid(node_index, n)
           THEN /\ nodes' = SumTreeSet(nodes, PyIndex(node_index, n), new_priority)
                /\ call' = [NoCall EXCEPT !.op = "set", !.ind = <<node_index>>,
                                           !.priority = <<new_priority>>]
           ELSE /\ call' = [NoCall EXCEPT !.op = "set", !.ok = FALSE,
                                           !.ind = <<node_index>>,
                                           !.priority = <<new_priority>>]
                /\ UNCHANGED nodes
        /\ UNCHANGED <<writer, exclusive, proj, samples, max_size, prioritized, state, ptr, size,
                       max_priority, beta, total, ind, ref>>

\* SumTree.batch_set with indices in [0, max_size) and any priorities
RawBatchSet(node_index, new_priority) ==
    /\ nodes' = SumTreeBatchSet(nodes, node_index, new_priority)
    /\ call' = [NoCall EXCEPT !.op = "batch_set", !.ind = node_index,
                               !.priority = new_priority]
    /\ UNCHANGED <<writer, exclusive, proj, samples, max_size, prioritized, state, ptr, size,
                   max_priority, beta, total, ind, ref>>

RawTreeNext ==
    \/ \E i \in -(2 * MaxCapacity + 1)..(2 * MaxCapacity), p \in -1..MaxTreePrio :
          RawSet(i, p)
    \/ \E n \in 1..BatchSize :
          \E iv \in [1..n -> 0..(max_size - 1)], pv \in [1..n -> -1..MaxTreePrio] :
             RawBatchSet(iv, pv)

RawTreeSpec == TreeInit /\ [][RawTreeNext]_vars

\* ---- properties ----------------------------------------------------------
\* sum of the first n leaves
RECURSIVE LeafSum(_, _)
LeafSum(t, n) == IF n = 0 THEN 0 ELSE LeafSum(t, n - 1) + Leaves(t)[n - 1]

NumLeaves(t) == Pow2(Last(t))

\* C1: after any sequence of set and batch_set calls every internal node is
\* the sum of its two children and the root is the sum of all leaves.
SumTreeInvariant ==
    /\ \A l \in 0..(Last(nodes) - 1) : \A i \in DOMAIN nodes[l] :
          nodes[l][i] = nodes[l + 1][2 * i] + nodes[l + 1][2 * i + 1]
    /\ Root(nodes) = LeafSum(nodes, NumLeaves(nodes))

\* a batch_set that listed an index twice has run on a tree of three levels
SumTreeInvariantWitness ==
    /\ call.op = "batch_set"
    /\ call.dup
    /\ Last(nodes) = 2
    /\ Root(nodes) >= 2
    /\ nodes[1][0] > 0 /\ nodes[1][1] > 0

\* C6: the search returns the leaf whose cumulative-priority interval
\* (sum of the leaves before it, sum up to and including it] contains the
\* draw.  The draw 0 lies in no such interval and is not covered.
SampleProportional ==
    (call.op = "tree_sample" /\ Root(nodes) > 0) =>
        \A j \in DOMAIN call.query : \A i \in DOMAIN Leaves(nodes) :
            (LeafSum(nodes, i) < call.query[j] /\ call.query[j] <= LeafSum(nodes, i + 1))
                => call.ind[j] = i

\* a draw on the upper boundary of the interval of the second leaf, below the
\* total, in a tree with three positive leaves
SampleProportionalWitness ==
    /\ call.op = "tree_sample"
    /\ Last(nodes) = 2
    /\ \A i \in 0..2 : Leaves(nodes)[i] > 0
    /\ call.ind = <<1>>
    /\ call.query = <<LeafSum(nodes, 2)>>
    /\ call.query[1] < Root(nodes)

\* C7: a leaf of priority 0 is never returned when the total is positive.
ZeroPriorityNeverSampled ==
    (call.op = "tree_sample" /\ Root(nodes) > 0) =>
        \A j \in DOMAIN call.ind : Leaves(nodes)[call.ind[j]] > 0

\* C8: batch_set leaves the tree as one set per distinct index does, with
\* the priority of the first occurrence of that index: the tree that only
\* ever saw such single sets is the tree.
BatchSetAsSets == nodes = ref

\* a batch_set listed one slot twice with two priorities on a tree that held
\* priorities already
BatchSetAsSetsWitness ==
    /\ call.op = "batch_set"
    /\ call.dup
    /\ Last(nodes) = 2
    /\ Root(nodes) >= 2

\* the insertion number of the last of the first tot transitions whose
\* position (counted from 0) is congruent to slot s, 0 when there is none
Latest(s, tot, ms) ==
    LET ids == {id \in 1..tot : (id - 1) % ms = s}
    IN  IF ids = {} THEN 0 ELSE CHOOSE id \in ids : \A other \in ids : other <= id

Written == {s \in DOMAIN state : state[s] # 0}

\* C2: the j-th transition ever inserted sits in slot j mod max_size and in
\* no other slot, so the store holds exactly the most recent
\* min(total, max_size) transitions, and ptr is total mod max_size.
WrapAround ==
    /\ \A s \in DOMAIN state : state[s] = Latest(s, total, max_size)
    /\ {state[s] : s \in Written} = (total - Min(total, max_size) + 1)..total
    /\ ptr = total % max_size

\* an add of at most max_size transitions was split across the tail and the
\* head of a store that had not been full before
WrapAroundWitness ==
    /\ call.op = "add" /\ call.ok
    /\ call.k <= max_size
    /\ call.ptr + call.k > max_size
    /\ max_size >= 3
    /\ ptr >= 1
    /\ total > max_size

\* the slots an add of k transitions at write pointer p writes
NewSlots(p, k, ms) == {(p + j) % ms : j \in 0..(k - 1)}

\* C3: after add of k transitions on a prioritized buffer every one of the
\* k newly written slots has leaf priority max_priority.
AddSeedsEverySlot ==
    (prioritized /\ call.op = "add" /\ call.ok) =>
        \A s \in NewSlots(call.ptr, call.k, max_size) : Leaves(nodes)[s] = max_priority

\* C4: size is the number of slots that hold a written transition,
\* min(total inserted, max_size).
CountIsWritten ==
    /\ size = Cardinality(Written)
    /\ size = Min(total, max_size)

\* C5: once something has been added, every index sample returns is < size.
SampledBelowCount ==
    (call.op = "sample" /\ call.ok /\ total > 0) =>
        \A j \in DOMAIN ind : ind[j] < size

\* C9 as stated: update_priority sets max_priority to the maximum of its old
\* value and the largest priority given, and every listed pair (slot,
\* priority) leaves the leaf of that slot equal to that priority.
UpdatePriorityEveryPair ==
    [][(prioritized /\ call'.op = "update_priority") =>
          /\ max_priority' = Max(max_priority, SeqMax(call'.priority))
          /\ \A j \in DOMAIN call'.ind :
                Leaves(nodes')[call'.ind[j]] = call'.priority[j]]_vars

\* C9 amended: update_priority sets max_priority to the maximum of its old
\* value and the largest priority given; the leaf of each listed slot equals
\* the priority given at the first occurrence of that slot in the batch, and
\* the leaves of the slots not listed keep their value.
UpdatePriorityFirstPair ==
    [][(prioritized /\ call'.op = "update_priority") =>
          /\ max_priority' = Max(max_priority, SeqMax(call'.priority))
          /\ \A j \in DOMAIN call'.ind :
                Leaves(nodes')[call'.ind[j]] =
                    call'.priority[FirstIndex(call'.ind, call'.ind[j])]
          /\ \A s \in DOMAIN Leaves(nodes) :
                s \notin Range(call'.ind) => Leaves(nodes')[s] = Leaves(nodes)[s]]_vars

\* update_priority listed one slot twice with two priorities, the second
\* larger than max_priority was
UpdatePriorityFirstPairWitness ==
    /\ prioritized
    /\ call.op = "update_priority"
    /\ call.dup
    /\ max_priority > InitMaxPriority
    /\ \E i, j \in DOMAIN call.ind :
          /\ i < j
          /\ call.ind[i] = call.ind[j]
          /\ call.priority[i] < call.priority[j]
          /\ call.priority[j] = max_priority
          /\ Leaves(nodes)[call.ind[i]] = call.priority[i]

\* C10: without prioritization add changes the storage arrays, ptr and size
\* only (no tree, max_priority or beta write) and update_priority changes
\* nothing.
UniformFrame ==
    [][~prioritized =>
          /\ UNCHANGED <<nodes, max_priority, beta>>
          /\ call'.op = "update_priority" => UNCHANGED <<state, ptr, size>>]_vars

\* update_priority has run on a non-prioritized buffer that holds data
UniformFrameWitness ==
    /\ ~prioritized
    /\ call.op = "update_priority"
    /\ size >= 2
    /\ ptr >= 1

\* ---- C11: importance weights ---------------------------------------------
\* the weight is exactly 1.0
IsOne(w) == w.kind = "ratio" /\ w.num = w.den

\* the weight is a finite number greater than 0
IsPositive(w) == w.kind = "ratio" /\ w.num > 0

\* C11: in every batch a prioritized sample returns from a tree of positive
\* total, the largest weight is exactly 1.0 and every weight is a finite
\* number greater than 0
WeightsNormalized ==
    (prioritized /\ call.op = "sample" /\ call.ok /\ Root(nodes) > 0) =>
        /\ \E j \in DOMAIN call.weights : IsOne(call.weights[j])
        /\ \A j \in DOMAIN call.weights : IsPositive(call.weights[j])

\* ---- C12: beta annealing --------------------------------------------------
\* C12: after N sample calls beta is min(beta_0 + N * increment, 1.0),
\* whatever adds and priority updates came in between
BetaAnneals == beta = Min(BetaInit + samples, BetaOne)

\* a sample call whose step was cut at 1.0, followed by another operation
BetaAnnealsWitness ==
    /\ BetaInit + samples > BetaOne
    /\ beta = BetaOne
    /\ call.op \in {"add", "update_priority"}

\* ---- C13: sampling an empty buffer -----------------------------------------
\* C13: a sample call on a buffer whose count is 0 ends in an error and
\* hands out no batch
EmptyBufferError == (call.op = "sample" /\ size = 0) => ~call.ok

\* ---- C14: sampling an empty tree -------------------------------------------
\* C14: SumTree.sample on a tree whose root is 0 fails and returns no index
EmptyTreeError ==
    (call.op = "tree_sample" /\ Root(nodes) = 0) => (~call.ok /\ call.ind = <<>>)

\* ---- C15: indices outside [0, capacity) ------------------------------------
\* C15: SumTree.set with an index outside [0, max_size) fails
InvalidIndexError ==
    (call.op = "set" /\ (call.ind[1] < 0 \/ call.ind[1] >= max_size)) => ~call.ok

\* ---- C16: negative priorities ----------------------------------------------
\* C16: set and batch_set with a negative priority fail, and no node of the
\* tree is negative
InvalidPriorityError ==
    /\ (call.op \in {"set", "batch_set"}
          /\ \E j \in DOMAIN call.priority : call.priority[j] < 0) => ~call.ok
    /\ \A l \in DOMAIN nodes : \A i \in DOMAIN nodes[l] : nodes[l][i] >= 0

\* ---- C17: the projection keeps the mass -------------------------------------
\* C17: the projected distribution sums to what the input distribution sums
\* to (m is counted in units of 1 / (ProbUnits * bden))
MassConserved ==
    proj.done =>
        VecSum(proj.m, proj.atoms) = VecSum(proj.pns_a, proj.atoms) * proj.bden

\* a projection in which an atom of positive probability has its b exactly
\* on the last atom of the support
MassConservedWitness ==
    /\ proj.done
    /\ \E i \in DOMAIN proj.b :
          /\ proj.pns_a[i] > 0
          /\ proj.low0[i] = proj.up0[i]
          /\ proj.up0[i] = proj.atoms - 1

\* ---- C18: the shifted return ------------------------------------------------
\* C18: target_Q of atom i is clamp(reward + not_done * gamma^n * z_i) with
\* z_i the i-th support point (both sides in units of
\* 1 / (ValueUnit * (atoms - 1)))
TargetFromSupport ==
    proj.done =>
        \A i \in DOMAIN proj.target_Q :
           proj.target_Q[i] * (proj.atoms - 1) =
              Clamp(proj.reward * ValueUnit * (proj.atoms - 1)
                       + proj.not_done * proj.disc * ProbUnits
                            * Support(i, proj.V_min, proj.V_max, proj.atoms),
                    proj.V_min * ValueUnit * (proj.atoms - 1),
                    proj.V_max * ValueUnit * (proj.atoms - 1))

\* ---- C19: boundary clamp ----------------------------------------------------
\* all of the mass of the input is on atom k of the output
AllMassOn(k) ==
    \A i \in DOMAIN proj.m :
       proj.m[i] = IF i = k THEN VecSum(proj.pns_a, proj.atoms) * proj.bden ELSE 0

\* C19: a target value at or above V_max for every atom puts all the mass on
\* the last atom, one at or below V_min for every atom puts it on the first
BoundaryClamp ==
    proj.done =>
        /\ (\A i \in DOMAIN proj.raw : proj.raw[i] >= proj.V_max * ValueUnit)
              => AllMassOn(proj.atoms - 1)
        /\ (\A i \in DOMAIN proj.raw : proj.raw[i] <= proj.V_min * ValueUnit)
              => AllMassOn(0)

\* a row whose target values all lie strictly above V_max
BoundaryClampWitness ==
    /\ proj.done
    /\ \A i \in DOMAIN proj.raw : proj.raw[i] > proj.V_max * ValueUnit
    /\ AllMassOn(proj.atoms - 1)

\* ---- C20: the two nudges ----------------------------------------------------
\* C20 as stated: for an integer b the two nudges apply independently, each
\* whenever its own condition holds for the atom
NudgesIndependent ==
    proj.done =>
        \A i \in DOMAIN proj.b :
           proj.low0[i] = proj.up0[i] =>
              /\ proj.up0[i] > 0 => proj.low[i] = proj.low0[i] - 1
              /\ proj.low0[i] < proj.atoms - 1 => proj.up[i] = proj.up0[i] + 1

\* C20 amended: for an integer b exactly one nudge applies, the first when
\* b > 0 and the second when b = 0; for any other b none applies
NudgesExclusive ==
    proj.done =>
        \A i \in DOMAIN proj.b :
           IF proj.low0[i] = proj.up0[i]
           THEN IF proj.up0[i] > 0
                THEN proj.low[i] = proj.low0[i] - 1 /\ proj.up[i] = proj.up0[i]
                ELSE proj.low[i] = proj.low0[i] /\ proj.up[i] = proj.up0[i] + 1
           ELSE proj.low[i] = proj.low0[i] /\ proj.up[i] = proj.up0[i]

\* an integer b strictly inside the support: both conditions hold for the
\* values before the nudges, and only low has moved
NudgesExclusiveWitness ==
    /\ proj.done
    /\ \E i \in DOMAIN proj.b :
          /\ proj.low0[i] = proj.up0[i]
          /\ proj.up0[i] > 0
          /\ proj.low0[i] < proj.atoms - 1
          /\ proj.low[i] = proj.low0[i] - 1
          /\ proj.up[i] = proj.up0[i]

\* ---- C21: ranges of ptr and size, and the oldest transition ---------------
\* C21: ptr is a slot, size is at most max_size, and once max_size
\* transitions have been inserted every slot is written and slot ptr holds
\* the oldest transition of the store
StoreRanges ==
    /\ ptr \in 0..(max_size - 1)
    /\ size \in 0..max_size
    /\ total >= max_size =>
          \A s \in DOMAIN state : state[s] > 0 /\ state[ptr] <= state[s]

\* the store has wrapped in the middle of a batch and ptr is not slot 0
StoreRangesWitness ==
    /\ call.op = "add"
    /\ call.ok
    /\ call.ptr + call.k > max_size
    /\ ptr > 0
    /\ max_size > 1

\* ---- C22: batches of any size ----------------------------------------------
\* C22: add completes for every batch size and every ptr, and moves ptr by
\* the batch size modulo max_size
AddAccepts ==
    call.op = "add" =>
        /\ call.ok
        /\ ptr = (call.ptr + call.k) % max_size

ConcInit ==
    \E ms \in 1..ConcCapacity, ex \in BOOLEAN :
       /\ max_size = ms
       /\ prioritized = TRUE
       /\ state = [s \in 0..(ms - 1) |-> 0]
       /\ ptr = 0
       /\ size = 0
       /\ nodes = SumTreeInit(ms)
       /\ max_priority = InitMaxPriority
       /\ beta = BetaInit
       /\ total = 0
       /\ ind = <<>>
       /\ ref = SumTreeInit(ms)
       /\ call = NoCall
       /\ samples = 0
       /\ proj = NoProj
       /\ writer = Idle
       /\ exclusive = ex

\* SumTree.set up to its loop: priority_diff is read from the leaf
BeginSet(node_index, new_priority) ==
    /\ writer = Idle
    /\ writer' = [level |-> Last(nodes), index |-> <<node_index>>,
                  diff |-> <<new_priority - Leaves(nodes)[node_index]>>]
    /\ call' = [NoCall EXCEPT !.op = "set"]
    /\ UNCHANGED <<exclusive, proj, samples, max_size, prioritized, state, ptr, size,
                   nodes, max_priority, beta, total, ind, ref>>

\* SumTree.batch_set up to its loop: np.unique and the priority_diff vector
BeginBatchSet(node_index, new_priority) ==
    /\ writer = Idle
    /\ LET uniq == SortSet(Range(node_index))
           unique_index == [j \in DOMAIN uniq |-> FirstIndex(node_index, uniq[j])]
       IN  writer' = [level |-> Last(nodes), index |-> uniq,
                      diff |-> [j \in DOMAIN uniq |->
                                   new_priority[unique_index[j]] - Leaves(nodes)[uniq[j]]]]
    /\ call' = [NoCall EXCEPT !.op = "batch_set"]
    /\ UNCHANGED <<exclusive, proj, samples, max_size, prioritized, state, ptr, size,
                   nodes, max_priority, beta, total, ind, ref>>

\* one pass of the loop: np.add.at(nodes, node_index, priority_diff);
\* node_index //= 2
WriterStep ==
    /\ writer.level >= 0
    /\ nodes' = [nodes EXCEPT ![writer.level] = AddAt(@, writer.index, writer.diff)]
    /\ writer' = IF writer.level = 0 THEN Idle
                 ELSE [writer EXCEPT !.level = @ - 1, !.index = Halve(@)]
    /\ UNCHANGED <<exclusive, proj, samples, max_size, prioritized, state, ptr, size,
                   max_priority, beta, total, ind, ref, call>>

\* a sample that never waits for the writer
ConcSampleNoLock(query_value) ==
    /\ call' = [NoCall EXCEPT !.op = "tree_sample",
                               !.ind = <<SumTreeSample(nodes, query_value)>>,
                               !.torn = (Root(nodes) # LeafSum(nodes, NumLeaves(nodes)))]
    /\ UNCHANGED <<writer, exclusive, proj, samples, max_size, prioritized, state, ptr,
                   size, nodes, max_priority, beta, total, ind, ref>>

\* SumTree.sample(1) of the sampling thread; with the lock it runs only
\* while no set / batch_set is in progress.  torn records whether the tree
\* it read had a root different from the sum of its leaves.
ConcSample(query_value) ==
    /\ exclusive => writer = Idle
    /\ call' = [NoCall EXCEPT !.op = "tree_sample",
                               !.ind = <<SumTreeSample(nodes, query_value)>>,
                               !.torn = (Root(nodes) # LeafSum(nodes, NumLeaves(nodes)))]
    /\ UNCHANGED <<writer, exclusive, proj, samples, max_size, prioritized, state, ptr,
                   size, nodes, max_priority, beta, total, ind, ref>>

ConcNext ==
    \/ \E i \in 0..(max_size - 1), p \in 0..MaxTreePrio : BeginSet(i, p)
    \/ \E n \in 1..BatchSize :
          \E iv \in [1..n -> 0..(max_size - 1)], pv \in [1..n -> 0..MaxTreePrio] :
             BeginBatchSet(iv, pv)
    \/ WriterStep
    \/ \E q \in Draws(Root(nodes)) : ConcSample(q)

ConcSpec == ConcInit /\ [][ConcNext]_vars

\* ---- C24: torn reads --------------------------------------------------------
\* C24: when sample is serialized with set / batch_set, it never reads a
\* tree whose root differs from the sum of its leaves
SerializedNeverTorn == (exclusive /\ call.op = "tree_sample") => ~call.torn

\* without the lock, a sample between two passes of a set read a torn tree
SerializedNeverTornWitness ==
    /\ ~exclusive
    /\ call.op = "tree_sample"
    /\ call.torn
    /\ writer # Idle

\* ---- C25: the running maximum ------------------------------------------------
\* max_priority bounds every leaf and is at least its initial value
MaxPriorityBounds ==
    /\ max_priority >= InitMaxPriority
    /\ \A i \in DOMAIN Leaves(nodes) : Leaves(nodes)[i] <= max_priority

\* C25: on a prioritized buffer max_priority is at least every leaf of the
\* tree and at least 1.0 in every state, and no step lowers it
MaxPriorityMonotone ==
    /\ [](prioritized => MaxPriorityBounds)
    /\ [][prioritized => max_priority' >= max_priority]_vars

\* an update whose priorities all lie below the running maximum, which a
\* leaf still holds
MaxPriorityMonotoneWitness ==
    /\ prioritized
    /\ call.op = "update_priority"
    /\ SeqMax(call.priority) < max_priority
    /\ max_priority > InitMaxPriority
    /\ \E i \in DOMAIN Leaves(nodes) : Leaves(nodes)[i] = max_priority

\* ---- C26: what sample leaves alone -------------------------------------------
\* C26: a sample call changes no stored transition, neither ptr nor size, no
\* node of the tree and not max_priority; without prioritization it does not
\* change beta either
SampleFrame ==
    [][call'.op = "sample" =>
          /\ UNCHANGED <<state, ptr, size, nodes, max_priority>>
          /\ ~prioritized => UNCHANGED beta]_vars

\* a prioritized sample of a buffer that holds transitions has returned a
\* batch and stepped beta
SampleFrameWitness ==
    /\ prioritized
    /\ call.op = "sample"
    /\ call.ok
    /\ total > 0
    /\ beta > BetaInit

\* ---- C27: padding leaves -----------------------------------------------------
\* C27: the leaves beyond max_size stay 0 and SumTree.sample returns an
\* index below max_size for every draw from 0 to the root
PaddingNeverSampled ==
    /\ \A i \in DOMAIN Leaves(nodes) : i >= max_size => Leaves(nodes)[i] = 0
    /\ call.op = "tree_sample" => call.ind[1] < max_size

\* a tree of 3 slots and 4 leaves: the largest draw ended on slot 2, next to
\* the padding leaf
PaddingNeverSampledWitness ==
    /\ max_size = 3
    /\ call.op = "tree_sample"
    /\ Root(nodes) > 0
    /\ call.query[1] = Root(nodes)
    /\ call.ind[1] = 2

\* ---- C28: the indices of the projection ---------------------------------------
\* C28: after the nudges every atom has 0 <= low < up <= atoms - 1,
\* up - low = 1 and low <= b <= up, so the scatter-adds stay inside the row
\* and the coefficients up - b and b - low are not negative and sum to 1
\* (b and the coefficients are counted in units of 1 / bden)
ProjectionIndices ==
    proj.done =>
        /\ proj.ok
        /\ \A i \in DOMAIN proj.b :
              /\ 0 <= proj.low[i]
              /\ proj.low[i] < proj.up[i]
              /\ proj.up[i] <= proj.atoms - 1
              /\ proj.up[i] - proj.low[i] = 1
              /\ proj.low[i] * proj.bden <= proj.b[i]
              /\ proj.b[i] <= proj.up[i] * proj.bden
              /\ proj.up[i] * proj.bden - proj.b[i] >= 0
              /\ proj.b[i] - proj.low[i] * proj.bden >= 0
              /\ (proj.up[i] * proj.bden - proj.b[i])
                    + (proj.b[i] - proj.low[i] * proj.bden) = proj.bden

\* a row with one b on the first atom and one strictly between two atoms
ProjectionIndicesWitness ==
    /\ proj.done
    /\ \E i \in DOMAIN proj.b : proj.low0[i] = 0 /\ proj.up0[i] = 0
    /\ \E i \in DOMAIN proj.b : proj.low0[i] < proj.up0[i]

====
